---- MODULE Spec2Model ----
(***************************************************************************)
(* A model of the DeepMedico visualisation scripts:                        *)
(*   src/vis.py       read_data, resample_data, butter_bandpass,           *)
(*                    apply_filter, plot_signals, main                     *)
(*   src/vis(8.7).py  load_signal, plot                                    *)
(*                                                                         *)
(* Time is counted in ticks.  One step of the 32 Hz grid ('31.25ms',       *)
(* vis.py line 20) is TicksPerStep ticks, so that timestamps which are not *)
(* on the grid can be written down.  Timestamps of vis.py are ticks since  *)
(* midnight of the recording's first day, which is where pandas anchors    *)
(* the bins of resample() (origin='start_day').                            *)
(*                                                                         *)
(* A cell of a file or of a frame is a record [kind, n]: a number, a text  *)
(* that does not parse, or NaN (pandas' missing value).                    *)
(***************************************************************************)
EXTENDS Integers, Sequences, FiniteSets

VARIABLES
    pc,                        \* position of the run / of the function under study
    entry,                     \* "vis" (vis.py main) or "vis87" (vis(8.7).py plot)
    error,                     \* the exception that ended the run, "" if none
    flowFile, thoracFile, spo2File, eventsFile,      \* the participant directory
    nasal_airflow, thoracic_movement, spo2, events,  \* the frames of the loading stage
    spo2_resampled,            \* resample_data's result
    nasal_airflow_values, thoracic_movement_values,  \* main's NumPy arrays
    overlay,                   \* the spans handed to axvspan, in order
    dirCreated, fileSaved, warned,
    data, rate, numeric_data,  \* load_signal: the file's rows, the rate, the result
    lowcut, highcut, fs, order, signal, coeffs, y    \* apply_filter

runVars  == <<entry, flowFile, thoracFile, spo2File, eventsFile,
              nasal_airflow, thoracic_movement, events,
              nasal_airflow_values, thoracic_movement_values,
              overlay, dirCreated, fileSaved, warned>>
resVars  == <<spo2, spo2_resampled>>
loadVars == <<data, rate, numeric_data>>
filtVars == <<lowcut, highcut, fs, order, signal, coeffs, y>>
vars     == <<pc, error, runVars, resVars, loadVars, filtVars>>

----------------------------------------------------------------------------
(* Bounds of the model.                                                    *)

TicksPerStep == 4      \* resolution: ticks in one 31.25 ms grid step
MaxTime      == 9      \* resample study: source timestamps are in 0..MaxTime
MaxLen       == 3      \* resample study: at most MaxLen source samples
MaxVal       == 2      \* sample values are in 1..MaxVal

----------------------------------------------------------------------------
(* Cells and frames.                                                       *)

Num(n)  == [kind |-> "num", n |-> n]
NaN     == [kind |-> "nan", n |-> 0]
Text    == [kind |-> "text", n |-> 0]

IsNum(c) == c.kind = "num"

Min(S) == CHOOSE x \in S : \A z \in S : x <= z
Max(S) == CHOOSE x \in S : \A z \in S : x >= z

Timestamps(frame) == [i \in DOMAIN frame |-> frame[i].timestamp]
Values(frame)     == [i \in DOMAIN frame |-> frame[i].value]

StrictlyIncreasing(ts) == \A i \in 1..(Len(ts) - 1) : ts[i] < ts[i + 1]
IsMonotonicIncreasing(ts) == \A i \in 1..(Len(ts) - 1) : ts[i] <= ts[i + 1]
IsUnique(ts) == \A i, j \in DOMAIN ts : i # j => ts[i] # ts[j]

----------------------------------------------------------------------------
(* resample_data (vis.py 18-22):                                           *)
(*   spo2.set_index('timestamp').resample('31.25ms').ffill().reset_index() *)

\* The stable sort by timestamp that resample() applies to an index that is
\* not monotonic increasing (TimeGrouper always sorts).
RECURSIVE InsertByTime(_, _)
InsertByTime(row, sorted) ==
    IF sorted = <<>> THEN <<row>>
    ELSE IF row.timestamp < Head(sorted).timestamp
         THEN <<row>> \o sorted
         ELSE <<Head(sorted)>> \o InsertByTime(row, Tail(sorted))

RECURSIVE SortByTime(_)
SortByTime(frame) ==
    IF frame = <<>> THEN <<>>
    ELSE InsertByTime(frame[Len(frame)], SortByTime(SubSeq(frame, 1, Len(frame) - 1)))

\* The left edge of the 31.25 ms bin that holds t; bins are anchored at
\* midnight (origin='start_day'), closed and labelled on the left.
BinEdge(t) == t - (t % TicksPerStep)

\* The index of the upsampled frame: the bin edges from the first sample's
\* bin to the last sample's bin.
ResIndex(first, last) ==
    [k \in 1..((BinEdge(last) - BinEdge(first)) \div TicksPerStep + 1) |->
        BinEdge(first) + (k - 1) * TicksPerStep]

\* DatetimeIndex.inferred_freq in ticks; 0 stands for None (fewer than three
\* timestamps, a non-monotonic or non-unique index, unequal differences).
InferredFreq(ts) ==
    IF Len(ts) < 3 \/ ~StrictlyIncreasing(ts) THEN 0
    ELSE IF \A i \in 1..(Len(ts) - 1) : ts[i + 1] - ts[i] = ts[2] - ts[1]
         THEN ts[2] - ts[1]
         ELSE 0

\* reindex(res_index, method='ffill') at grid point g: the value at the last
\* index label at or before g, NaN when there is none.
FfillAt(frame, g) ==
    LET before == {i \in DOMAIN frame : frame[i].timestamp <= g}
    IN  IF before = {} THEN NaN ELSE frame[Max(before)].value

\* Resampler.ffill() = _upsample('ffill'): when the index has the target
\* frequency and as many labels as the target index, the frame is copied and
\* relabelled with the target index; otherwise it is reindexed with ffill,
\* which raises on duplicate labels.
resample_data(frame) ==
    LET sorted == IF IsMonotonicIncreasing(Timestamps(frame)) THEN frame
                  ELSE SortByTime(frame)
        ts     == Timestamps(sorted)
        index  == ResIndex(ts[1], ts[Len(ts)])
    IN  IF frame = <<>> THEN [ok |-> TRUE, frame |-> <<>>]
        ELSE IF InferredFreq(ts) = TicksPerStep /\ Len(sorted) = Len(index)
        THEN [ok |-> TRUE,
              frame |-> [k \in DOMAIN index |->
                            [timestamp |-> index[k], value |-> sorted[k].value]]]
        ELSE IF ~IsUnique(ts)
        THEN [ok |-> FALSE, frame |-> <<>>]
        ELSE [ok |-> TRUE,
              frame |-> [k \in DOMAIN index |->
                            [timestamp |-> index[k], value |-> FfillAt(sorted, index[k])]]]

----------------------------------------------------------------------------
(* load_signal (vis(8.7).py 6-36).  A row of the file is                   *)
(* [timestamp_str, value_str]; the timestamp column is read and ignored.   *)

MaxRows == 3      \* load_signal study: the file has at most MaxRows rows

Rates == {4, 32}  \* the rates plot() passes (vis(8.7).py 48-50)

\* Ticks in one second: the grid step is 1/32 s.
TicksPerSecond == 32 * TicksPerStep

\* pd.to_numeric(data['value_str'], errors='coerce'): a Series whose index is
\* the row number; a value that does not parse becomes NaN.
ToNumeric(rows) ==
    [i \in DOMAIN rows |->
        [index |-> i - 1,
         value |-> IF IsNum(rows[i].value_str) THEN rows[i].value_str ELSE NaN]]

\* Series.dropna(): the rows with a value, under their old index labels.
DropNa(series) == SelectSeq(series, LAMBDA r : IsNum(r.value))

\* Mutation of ResetIndex: the old row numbers are kept as labels.
KeepIndex(series) == series

\* Series.reset_index(drop=True): the labels become 0, 1, 2, ...
ResetIndex(series) ==
    [i \in DOMAIN series |-> [index |-> i - 1, value |-> series[i].value]]

\* pd.to_timedelta(index / rate, unit='s'), in ticks.
ToTimedelta(index, r) == (index * TicksPerSecond) \div r

load_signal(rows, r) ==
    LET cleaned == ResetIndex(DropNa(ToNumeric(rows)))
    IN  [i \in DOMAIN cleaned |->
            [time  |-> ToTimedelta(cleaned[i].index, r),
             value |-> cleaned[i].value]]

----------------------------------------------------------------------------
(* butter_bandpass and apply_filter (vis.py 52-62).  Frequencies are       *)
(* integers in one common unit; quotients are kept exact as fractions      *)
(* [num, den] with den > 0.                                                *)

MaxCut   == 3     \* filter study: cutoffs are in -1..MaxCut
MaxFs    == 7     \* filter study: sampling rates are in 0..MaxFs
MaxOrder == 2     \* filter study: orders are in 1..MaxOrder

Frac(a, b) == IF b < 0 THEN [num |-> 0 - a, den |-> 0 - b] ELSE [num |-> a, den |-> b]
FracLess(p, q) == p.num * q.den < q.num * p.den
FracEq(p, q)   == p.num * q.den = q.num * p.den
Zero == Frac(0, 1)
One  == Frac(1, 1)

\* x / q for a number x and a fraction q # 0.
DivBy(x, q) == Frac(x * q.den, q.num)

NoCoeffs == [ok |-> FALSE, err |-> "", order |-> 0, low |-> Zero, high |-> Zero, taps |-> 0]

\* scipy.signal.butter(order, [low, high], btype='band'): iirfilter rejects
\* critical frequencies that are not positive, not increasing, or not below
\* 1 (the Nyquist frequency); the result has 2*order+1 taps in b and in a.
Butter(n, low, high) ==
    IF ~FracLess(Zero, low) \/ ~FracLess(Zero, high)
    THEN [NoCoeffs EXCEPT !.err = "ValueError"]
    ELSE IF ~FracLess(low, high)
    THEN [NoCoeffs EXCEPT !.err = "ValueError"]
    ELSE IF ~FracLess(low, One) \/ ~FracLess(high, One)
    THEN [NoCoeffs EXCEPT !.err = "ValueError"]
    ELSE [ok |-> TRUE, err |-> "", order |-> n, low |-> low, high |-> high,
          taps |-> 2 * n + 1]

\* Mutation of Nyquist: the factor 0.5 is forgotten.
NyquistIsFs(f) == Frac(f, 1)

\* nyquist = 0.5 * fs (vis.py 53).
Nyquist(f) == Frac(f, 2)

butter_bandpass(lo, hi, f, n) ==
    LET nyquist == Nyquist(f)
    IN  IF nyquist.num = 0
        THEN [NoCoeffs EXCEPT !.err = "ZeroDivisionError"]
        ELSE Butter(n, DivBy(lo, nyquist), DivBy(hi, nyquist))

\* scipy.signal.filtfilt(b, a, x) with its default padding:
\* padlen = 3 * max(len(a), len(b)), and x must be longer than padlen.
PadLen(c) == 3 * c.taps

\* A filtered sample: a new value, which is not the sample it stands for.
Filtered(c) == [kind |-> "filtered", n |-> c.n]

Filtfilt(c, x) ==
    IF \E i \in DOMAIN x : x[i].kind = "text"
    THEN [ok |-> FALSE, err |-> "TypeError", y |-> <<>>]
    ELSE IF Len(x) <= PadLen(c)
    THEN [ok |-> FALSE, err |-> "ValueError", y |-> <<>>]
    ELSE [ok |-> TRUE, err |-> "", y |-> [i \in DOMAIN x |-> Filtered(x[i])]]

apply_filter(x, lo, hi, f, n) ==
    LET c == butter_bandpass(lo, hi, f, n)
    IN  IF ~c.ok THEN [ok |-> FALSE, err |-> c.err, y |-> <<>>]
        ELSE Filtfilt(c, x)

----------------------------------------------------------------------------
(* Values of the variables a study does not use.                           *)

NoFile == [exists |-> FALSE, rows |-> <<>>]

RunIdle ==
    /\ entry = "" /\ flowFile = NoFile /\ thoracFile = NoFile
    /\ spo2File = NoFile /\ eventsFile = NoFile
    /\ nasal_airflow = <<>> /\ thoracic_movement = <<>> /\ events = <<>>
    /\ nasal_airflow_values = <<>> /\ thoracic_movement_values = <<>>
    /\ overlay = <<>> /\ dirCreated = FALSE /\ fileSaved = FALSE /\ warned = FALSE

ResIdle  == spo2 = <<>> /\ spo2_resampled = <<>>
LoadIdle == data = <<>> /\ rate = 0 /\ numeric_data = <<>>
FiltIdle ==
    /\ lowcut = 0 /\ highcut = 0 /\ fs = 0 /\ order = 0
    /\ signal = <<>> /\ coeffs = NoCoeffs /\ y = <<>>

----------------------------------------------------------------------------
(* Study of resample_data: one call on a saturation channel with strictly  *)
(* increasing timestamps, then a second call on the result.                *)

SourceRows == [timestamp : 0..MaxTime, value : {Num(v) : v \in 1..MaxVal}]

Sources ==
    {f \in UNION {[1..n -> SourceRows] : n \in 1..MaxLen} :
        StrictlyIncreasing(Timestamps(f))}

InitResample ==
    /\ pc = "resample_data" /\ error = ""
    /\ spo2 \in Sources /\ spo2_resampled = <<>>
    /\ RunIdle /\ LoadIdle /\ FiltIdle

ResampleOnce ==
    /\ pc = "resample_data"
    /\ LET r == resample_data(spo2)
       IN  /\ spo2_resampled' = r.frame
           /\ pc' = IF r.ok THEN "resampled" ELSE "failed"
           /\ error' = IF r.ok THEN "" ELSE "ValueError"
    /\ UNCHANGED <<spo2, runVars, loadVars, filtVars>>

ResampleAgain ==
    /\ pc = "resampled"
    /\ LET r == resample_data(spo2_resampled)
       IN  /\ spo2_resampled' = r.frame
           /\ pc' = IF r.ok THEN "resampled_twice" ELSE "failed"
           /\ error' = IF r.ok THEN "" ELSE "ValueError"
    /\ UNCHANGED <<spo2, runVars, loadVars, filtVars>>

NextResample == ResampleOnce \/ ResampleAgain

SpecResample == InitResample /\ [][NextResample]_vars

----------------------------------------------------------------------------
(* Study of load_signal: one call on a file of at most MaxRows rows.       *)

ValueCells == {Num(v) : v \in 1..MaxVal} \cup {Text, NaN}

SignalFiles ==
    {[i \in DOMAIN c |-> [timestamp_str |-> i, value_str |-> c[i]]] :
        c \in UNION {[1..n -> ValueCells] : n \in 0..MaxRows}}

InitLoadSignal ==
    /\ pc = "load_signal" /\ error = ""
    /\ data \in SignalFiles /\ rate \in Rates /\ numeric_data = <<>>
    /\ RunIdle /\ ResIdle /\ FiltIdle

LoadSignal ==
    /\ pc = "load_signal"
    /\ numeric_data' = load_signal(data, rate)
    /\ pc' = "loaded"
    /\ UNCHANGED <<error, data, rate, runVars, resVars, filtVars>>

NextLoadSignal == LoadSignal

SpecLoadSignal == InitLoadSignal /\ [][NextLoadSignal]_vars

----------------------------------------------------------------------------
(* Study of apply_filter: the filter is designed (vis.py 60), then applied *)
(* (vis.py 61).  The sampling rate is not negative.                        *)

SignalOfLen(n) == [i \in 1..n |-> Num(1)]

InitFilter ==
    /\ pc = "butter_bandpass" /\ error = ""
    /\ lowcut \in -1..MaxCut /\ highcut \in -1..MaxCut
    /\ fs \in 0..MaxFs /\ order \in 1..MaxOrder
    /\ signal \in {SignalOfLen(3 * (2 * order + 1) + d) : d \in {0, 1}}
    /\ coeffs = NoCoeffs /\ y = <<>>
    /\ RunIdle /\ ResIdle /\ LoadIdle

DesignFilter ==
    /\ pc = "butter_bandpass"
    /\ coeffs' = butter_bandpass(lowcut, highcut, fs, order)
    /\ pc' = IF coeffs'.ok THEN "filtfilt" ELSE "failed"
    /\ error' = coeffs'.err
    /\ UNCHANGED <<lowcut, highcut, fs, order, signal, y, runVars, resVars, loadVars>>

ApplyFiltfilt ==
    /\ pc = "filtfilt"
    /\ LET r == Filtfilt(coeffs, signal)
       IN  /\ y' = r.y
           /\ pc' = IF r.ok THEN "filtered" ELSE "failed"
           /\ error' = r.err
    /\ UNCHANGED <<lowcut, highcut, fs, order, signal, coeffs, runVars, resVars, loadVars>>

NextFilter == DesignFilter \/ ApplyFiltfilt

SpecFilter == InitFilter /\ [][NextFilter]_vars

----------------------------------------------------------------------------
(* The two entry points, run on one participant directory.                 *)

MaxSpo2   == 2    \* the saturation file has 1..MaxSpo2 rows
MaxEvents == 1    \* the events file has 1..MaxEvents rows
MaxBound  == 2    \* numeric event bounds are in 1..MaxBound

\* main's filter settings (vis.py 73-75), in hundredths of a hertz, and the
\* default order of apply_filter (vis.py 59).
MainFs       == 3200
MainLowcut   == 17
MainHighcut  == 40
DefaultOrder == 5

MainCoeffs == butter_bandpass(MainLowcut, MainHighcut, MainFs, DefaultOrder)

\* A respiratory file of n rows, one grid step apart.  Defect "swap": the
\* first two timestamps are exchanged; defect "text": the second value does
\* not parse.
RespRows(n, defect) ==
    [i \in 1..n |->
        [timestamp_str |->
            IF defect = "swap" /\ i <= 2 THEN (2 - i) * TicksPerStep
            ELSE (i - 1) * TicksPerStep,
         value_str |->
            IF defect = "text" /\ i = 2 THEN Text ELSE Num(((i - 1) % MaxVal) + 1)]]

RespFiles ==
    {NoFile} \cup
    {[exists |-> TRUE, rows |-> RespRows(n, d)] :
        n \in {PadLen(MainCoeffs), PadLen(MainCoeffs) + 1},
        d \in {"none", "swap", "text"}}

\* A saturation file of n rows, eight grid steps (250 ms) apart, the first
\* at `start`.  Defect "swap" as above; defect "dup": the second timestamp
\* repeats the first.
Spo2Rows(n, start, defect) ==
    [i \in 1..n |->
        [timestamp_str |->
            start + 8 * TicksPerStep *
                (IF defect = "swap" /\ i <= 2 THEN 2 - i
                 ELSE IF defect = "dup" /\ i = 2 THEN 0
                 ELSE i - 1),
         value_str |-> Num(((i - 1) % MaxVal) + 1)]]

Spo2Files ==
    {NoFile} \cup
    {[exists |-> TRUE, rows |-> Spo2Rows(n, s, d)] :
        n \in 1..MaxSpo2, s \in {0, 1}, d \in {"none"}} \cup
    {[exists |-> TRUE, rows |-> Spo2Rows(n, s, d)] :
        n \in 2..MaxSpo2, s \in {0, 1}, d \in {"swap", "dup"}}

BoundCells == {Num(b) : b \in 1..MaxBound} \cup {Text}
EventRows  == [event : {"apnea", "Hypopnea"}, start : BoundCells, end : BoundCells]

EventsFiles ==
    {NoFile} \cup
    {[exists |-> TRUE, rows |-> r] :
        r \in UNION {[1..n -> EventRows] : n \in 1..MaxEvents}}

\* pd.read_csv(..., names=['timestamp', 'value'], parse_dates=['timestamp'])
\* (vis.py 10-12): the rows as they stand in the file.
ReadCsv(file) ==
    [i \in DOMAIN file.rows |->
        [timestamp |-> file.rows[i].timestamp_str, value |-> file.rows[i].value_str]]

Init ==
    /\ entry \in {"vis", "vis87"}
    /\ pc = IF entry = "vis" THEN "read_data" ELSE "load_signal"
    /\ error = ""
    /\ flowFile \in RespFiles /\ thoracFile \in RespFiles
    /\ spo2File \in Spo2Files /\ eventsFile \in EventsFiles
    /\ nasal_airflow = <<>> /\ thoracic_movement = <<>> /\ events = <<>>
    /\ nasal_airflow_values = <<>> /\ thoracic_movement_values = <<>>
    /\ overlay = <<>> /\ dirCreated = FALSE /\ fileSaved = FALSE /\ warned = FALSE
    /\ ResIdle /\ LoadIdle /\ FiltIdle

Fail(exception) == pc' = "failed" /\ error' = exception

\* read_data (vis.py 8-16, called at 65): four read_csv calls; a file that
\* does not exist raises FileNotFoundError.
ReadData ==
    /\ entry = "vis" /\ pc = "read_data"
    /\ IF flowFile.exists /\ thoracFile.exists /\ spo2File.exists /\ eventsFile.exists
       THEN /\ nasal_airflow' = ReadCsv(flowFile)
            /\ thoracic_movement' = ReadCsv(thoracFile)
            /\ spo2' = ReadCsv(spo2File)
            /\ events' = eventsFile.rows
            /\ pc' = "resample_data"
            /\ UNCHANGED error
       ELSE /\ Fail("FileNotFoundError")
            /\ UNCHANGED <<nasal_airflow, thoracic_movement, spo2, events>>
    /\ UNCHANGED <<entry, flowFile, thoracFile, spo2File, eventsFile, spo2_resampled,
                   nasal_airflow_values, thoracic_movement_values,
                   overlay, dirCreated, fileSaved, warned, loadVars, filtVars>>

\* main, vis.py 66: only the saturation channel is resampled.
ResampleData ==
    /\ entry = "vis" /\ pc = "resample_data"
    /\ LET r == resample_data(spo2)
       IN  IF r.ok
           THEN spo2_resampled' = r.frame /\ pc' = "to_numpy" /\ UNCHANGED error
           ELSE Fail("ValueError") /\ UNCHANGED spo2_resampled
    /\ UNCHANGED <<spo2, runVars, loadVars, filtVars>>

\* main, vis.py 69-70.
ToNumpy ==
    /\ entry = "vis" /\ pc = "to_numpy"
    /\ nasal_airflow_values' = Values(nasal_airflow)
    /\ thoracic_movement_values' = Values(thoracic_movement)
    /\ pc' = "filter_nasal"
    /\ UNCHANGED <<entry, error, flowFile, thoracFile, spo2File, eventsFile,
                   nasal_airflow, thoracic_movement, events,
                   overlay, dirCreated, fileSaved, warned, resVars, loadVars, filtVars>>

\* frame['value'] = y: the column of the frame is replaced.
SetValue(frame, col) ==
    [i \in DOMAIN frame |-> [frame[i] EXCEPT !.value = col[i]]]

\* main, vis.py 77.
FilterNasal ==
    /\ entry = "vis" /\ pc = "filter_nasal"
    /\ LET r == apply_filter(nasal_airflow_values, MainLowcut, MainHighcut, MainFs,
                             DefaultOrder)
       IN  IF r.ok
           THEN /\ nasal_airflow' = SetValue(nasal_airflow, r.y)
                /\ pc' = "filter_thoracic" /\ UNCHANGED error
           ELSE Fail(r.err) /\ UNCHANGED nasal_airflow
    /\ UNCHANGED <<entry, flowFile, thoracFile, spo2File, eventsFile,
                   thoracic_movement, events,
                   nasal_airflow_values, thoracic_movement_values,
                   overlay, dirCreated, fileSaved, warned, resVars, loadVars, filtVars>>

\* main, vis.py 78.
FilterThoracic ==
    /\ entry = "vis" /\ pc = "filter_thoracic"
    /\ LET r == apply_filter(thoracic_movement_values, MainLowcut, MainHighcut, MainFs,
                             DefaultOrder)
       IN  IF r.ok
           THEN /\ thoracic_movement' = SetValue(thoracic_movement, r.y)
                /\ pc' = "makedirs" /\ UNCHANGED error
           ELSE Fail(r.err) /\ UNCHANGED thoracic_movement
    /\ UNCHANGED <<entry, flowFile, thoracFile, spo2File, eventsFile,
                   nasal_airflow, events,
                   nasal_airflow_values, thoracic_movement_values,
                   overlay, dirCreated, fileSaved, warned, resVars, loadVars, filtVars>>

\* main, vis.py 80-81: os.makedirs('Visualizations', exist_ok=True).
MakeDirs ==
    /\ entry = "vis" /\ pc = "makedirs"
    /\ dirCreated' = TRUE
    /\ pc' = "plot_signals"
    /\ UNCHANGED <<entry, error, flowFile, thoracFile, spo2File, eventsFile,
                   nasal_airflow, thoracic_movement, events,
                   nasal_airflow_values, thoracic_movement_values,
                   overlay, fileSaved, warned, resVars, loadVars, filtVars>>

\* The rows of `rows` up to and including the first one that axvspan cannot
\* convert to the date axis (a bound that is a text), all rows if none.
UpToFirstText(rows) ==
    LET bad == {i \in DOMAIN rows : ~IsNum(rows[i].start) \/ ~IsNum(rows[i].end)}
    IN  IF bad = {} THEN rows ELSE SubSeq(rows, 1, Min(bad))

\* plot_signals (vis.py 24-50, called at 82): every event row is handed to
\* axvspan (44-46), which raises on a bound that is no date; then savefig.
PlotSignals ==
    /\ entry = "vis" /\ pc = "plot_signals"
    /\ overlay' = UpToFirstText(events)
    /\ IF overlay' = events /\ \A i \in DOMAIN events :
                                   IsNum(events[i].start) /\ IsNum(events[i].end)
       THEN fileSaved' = TRUE /\ pc' = "done" /\ UNCHANGED error
       ELSE Fail("ConversionError") /\ UNCHANGED fileSaved
    /\ UNCHANGED <<entry, flowFile, thoracFile, spo2File, eventsFile,
                   nasal_airflow, thoracic_movement, events,
                   nasal_airflow_values, thoracic_movement_values,
                   dirCreated, warned, resVars, loadVars, filtVars>>

\* load_signal's frame with the column names the frames of vis.py have.
Loaded(file, r) ==
    LET f == load_signal(file.rows, r)
    IN  [i \in DOMAIN f |-> [timestamp |-> f[i].time, value |-> f[i].value]]

\* plot, vis(8.7).py 48-50: three load_signal calls.
Plot87Load ==
    /\ entry = "vis87" /\ pc = "load_signal"
    /\ IF flowFile.exists /\ thoracFile.exists /\ spo2File.exists
       THEN /\ nasal_airflow' = Loaded(flowFile, 32)
            /\ thoracic_movement' = Loaded(thoracFile, 32)
            /\ spo2' = Loaded(spo2File, 4)
            /\ pc' = "events"
            /\ UNCHANGED error
       ELSE /\ Fail("FileNotFoundError")
            /\ UNCHANGED <<nasal_airflow, thoracic_movement, spo2>>
    /\ UNCHANGED <<entry, flowFile, thoracFile, spo2File, eventsFile, events,
                   spo2_resampled, nasal_airflow_values, thoracic_movement_values,
                   overlay, dirCreated, fileSaved, warned, loadVars, filtVars>>

\* vis(8.7).py 89-91: to_numeric(errors='coerce') on start and end, then
\* dropna(subset=['start', 'end']).
ParseEvents(rows) ==
    SelectSeq(rows, LAMBDA r : IsNum(r.start) /\ IsNum(r.end))

\* plot, vis(8.7).py 75-129: the events, when the file exists, are parsed
\* and every surviving row is handed to axvspan; otherwise a warning.
Plot87Events ==
    /\ entry = "vis87" /\ pc = "events"
    /\ IF eventsFile.exists
       THEN /\ events' = ParseEvents(eventsFile.rows)
            /\ overlay' = events'
            /\ UNCHANGED warned
       ELSE /\ warned' = TRUE
            /\ UNCHANGED <<events, overlay>>
    /\ pc' = "savefig"
    /\ UNCHANGED <<entry, error, flowFile, thoracFile, spo2File, eventsFile,
                   nasal_airflow, thoracic_movement,
                   nasal_airflow_values, thoracic_movement_values,
                   dirCreated, fileSaved, resVars, loadVars, filtVars>>

\* plot, vis(8.7).py 139-143: makedirs, then savefig.
Plot87Save ==
    /\ entry = "vis87" /\ pc = "savefig"
    /\ dirCreated' = TRUE /\ fileSaved' = TRUE
    /\ pc' = "done"
    /\ UNCHANGED <<entry, error, flowFile, thoracFile, spo2File, eventsFile,
                   nasal_airflow, thoracic_movement, events,
                   nasal_airflow_values, thoracic_movement_values,
                   overlay, warned, resVars, loadVars, filtVars>>

Next ==
    \/ ReadData \/ ResampleData \/ ToNumpy \/ FilterNasal \/ FilterThoracic
    \/ MakeDirs \/ PlotSignals
    \/ Plot87Load \/ Plot87Events \/ Plot87Save

Spec == Init /\ [][Next]_vars

----------------------------------------------------------------------------
(* Claims about resample_data, under SpecResample.                         *)

\* The source sample with the greatest timestamp at or before g.
LatestAtOrBefore(frame, g) ==
    frame[Max({i \in DOMAIN frame : frame[i].timestamp <= g})]

\* C1: step-hold resampling.  Every row that resample_data emits at grid
\* timestamp g carries the value of the source sample with the greatest
\* timestamp at or before g: there is such a sample, and the value is
\* neither interpolated nor taken from a later sample.
C1_StepHold ==
    pc = "resampled" =>
        \A k \in DOMAIN spo2_resampled :
            LET g == spo2_resampled[k].timestamp
            IN  /\ \E i \in DOMAIN spo2 : spo2[i].timestamp <= g
                /\ spo2_resampled[k].value = LatestAtOrBefore(spo2, g).value

\* The points of the 31.25 ms grid between two timestamps.
GridPoints(first, last) ==
    {g \in first..last : g % TicksPerStep = 0}

\* C2: resampled range.  The timestamps emitted for a non-empty source are
\* exactly the grid points from the first to the last source timestamp, and
\* no emitted row has a missing value.
C2_ResampledRange ==
    pc = "resampled" =>
        /\ {spo2_resampled[k].timestamp : k \in DOMAIN spo2_resampled}
              = GridPoints(spo2[1].timestamp, spo2[Len(spo2)].timestamp)
        /\ \A k \in DOMAIN spo2_resampled : IsNum(spo2_resampled[k].value)

\* The samples are one grid step apart, wherever the first one lies.
UniformStep(frame) ==
    \A i \in 1..(Len(frame) - 1) :
        frame[i + 1].timestamp - frame[i].timestamp = TicksPerStep

\* C3: resampler idempotence.  A saturation channel whose samples are
\* already 31.25 ms apart, whatever the timestamp of its first sample, comes
\* back with the same timestamps and the same values.
C3_UniformInputUnchanged ==
    (pc = "resampled" /\ UniformStep(spo2)) => spo2_resampled = spo2

\* A second call of resample_data returns what the first call returned.
ResampleTwiceIsOnce ==
    [][pc = "resampled" => spo2_resampled' = spo2_resampled]_vars

----------------------------------------------------------------------------
(* Claim about load_signal, under SpecLoadSignal.                          *)

\* The rows of the file whose value field parses as a number.
GoodRows == {i \in DOMAIN data : IsNum(data[i].value_str)}

\* The row of the file that the j-th surviving sample (from 1) comes from.
SurvivorRow(j) ==
    CHOOSE i \in GoodRows : Cardinality({k \in GoodRows : k < i}) = j - 1

\* C6: row-drop property.  Of N rows with K values that do not parse,
\* load_signal returns N-K samples, in their original relative order, the
\* i-th of them (from 0) at i/rate seconds whatever its row number was; when
\* K = N the result is the empty channel.
C6_RowDrop ==
    pc = "loaded" =>
        LET N == Len(data)
            K == Cardinality(DOMAIN data \ GoodRows)
        IN  /\ Len(numeric_data) = N - K
            /\ \A j \in 1..(N - K) :
                  /\ numeric_data[j].value = data[SurvivorRow(j)].value_str
                  /\ numeric_data[j].time * rate = (j - 1) * TicksPerSecond
            /\ (K = N => numeric_data = <<>>)

\* A malformed row precedes two rows that survive.
C6_Witness ==
    /\ pc = "loaded"
    /\ Len(data) = 3
    /\ ~IsNum(data[1].value_str)
    /\ Len(numeric_data) = 2
    /\ numeric_data[2].time * rate = TicksPerSecond

----------------------------------------------------------------------------
(* Claim about butter_bandpass, under SpecFilter.                          *)

----------------------------------------------------------------------------
(* Claims about the two entry points, under Spec.                          *)

\* C4: event interval validity.  Every event row handed to the overlay loop
\* has numeric bounds with start <= end; a row with a missing or non-numeric
\* bound, or with end < start, never reaches the loop.
C4_EventIntervalsValid ==
    \A i \in DOMAIN overlay :
        /\ IsNum(overlay[i].start) /\ IsNum(overlay[i].end)
        /\ overlay[i].start.n <= overlay[i].end.n

\* The positions of main after its filtering stage (vis.py 77-78).
AfterFiltering == {"makedirs", "plot_signals", "done"}

\* C7: source immutability.  After the filtering stage of main the nasal
\* airflow and thoracic movement frames of the loading stage still hold the
\* unfiltered values read from the files.
C7_SourceUnchangedByFilter ==
    (entry = "vis" /\ pc \in AfterFiltering) =>
        /\ Values(nasal_airflow) = Values(ReadCsv(flowFile))
        /\ Values(thoracic_movement) = Values(ReadCsv(thoracFile))

\* C8: abort without partial output.  A run that failed has written no
\* visualization file and has created no output directory.
C8_NoOutputOnFailure ==
    pc = "failed" => (~fileSaved /\ ~dirCreated)

\* The order of the positions of a run.
Rank(p) ==
    CASE p \in {"read_data", "load_signal"} -> 1
      [] p \in {"resample_data", "events"}  -> 2
      [] p = "to_numpy"                     -> 3
      [] p = "filter_nasal"                 -> 4
      [] p = "filter_thoracic"              -> 5
      [] p \in {"makedirs", "savefig"}      -> 6
      [] p = "plot_signals"                 -> 7
      [] OTHER                              -> 8

\* A run never returns to an earlier position, and a failed run stays failed.
StagesInOrder ==
    [][Rank(pc') > Rank(pc) /\ pc # "failed"]_vars

\* C9: a missing events file is not fatal.  With the three signal files
\* present and 'Flow Events.txt' absent, no run ends on the missing file,
\* and a finished run has an empty event list, has warned and has written
\* its output.
C9_MissingEventsNotFatal ==
    (~eventsFile.exists /\ flowFile.exists /\ thoracFile.exists /\ spo2File.exists) =>
        /\ pc = "failed" => error # "FileNotFoundError"
        /\ pc = "done" => (events = <<>> /\ warned /\ fileSaved)

\* The positions a run reaches only after its channels have a time base.
AfterTimeBase ==
    {"resample_data", "to_numpy", "filter_nasal", "filter_thoracic", "makedirs",
     "plot_signals", "events", "savefig", "done"}

\* C10: monotonic time base.  Every channel that has left the time-base
\* stage has strictly increasing timestamps; a recording whose timestamps
\* are not strictly increasing ends the run instead.
C10_MonotonicTimeBase ==
    pc \in AfterTimeBase =>
        /\ StrictlyIncreasing(Timestamps(nasal_airflow))
        /\ StrictlyIncreasing(Timestamps(thoracic_movement))
        /\ StrictlyIncreasing(Timestamps(spo2))

====
